---- MODULE Spec2Model ----
(***************************************************************************)
(* Model of scripts/fetch_nyu_schedge.py: the pipeline main() (terms       *)
(* sanity check, courses fetch, transform, write, log) and the pure        *)
(* function transform_to_quacs_schema.                                     *)
(*                                                                         *)
(* JSON values.  A scalar is a record [kind, s, n]: kind "str" carries the *)
(* text s (a sequence of one-character strings), kind "int" the number n,  *)
(* kind "null" is Python None, and kind "absent" in a mapping's field says *)
(* that the mapping has no such key.  A nested collection is a record      *)
(* [shape, items]: shape "absent" (no such key), "null", "int" (present    *)
(* with a wrong shape) or "list"; an item with ismap = FALSE is a list     *)
(* element that is not a mapping.                                          *)
(***************************************************************************)
EXTENDS Integers, Sequences, FiniteSets, TLC

\* ------------------------------------------------------------ bounds
MaxCourses == 2
MaxSections == 2
MaxInstructors == 2
MaxMeetings == 2
MaxCalls == 2

\* ------------------------------------------------------------ state
VARIABLES
    pc,           \* where main() is: "terms", "courses", "transform", "write",
                  \* "log", "done", or "aborted" (an uncaught exception)
    results,      \* how each I/O step ended: [terms, courses, write]
    raw_courses,  \* main's raw_courses, the parsed body of the courses response
    out,          \* main's out, the result of the last transform call
    file,         \* semester_data/2025/fa/courses.json
    file0,        \* the same file before the run
    requests,     \* GET requests issued so far, per endpoint
    writes,       \* how many times the output file was opened for writing
    trace,        \* the pipeline steps taken, in order
    console,      \* what main() printed, in order
    calls         \* calls of transform_to_quacs_schema so far, with the
                  \* input and the result of each

vars == <<pc, results, raw_courses, out, file, file0, requests, writes, trace,
          console, calls>>

\* ------------------------------------------------------------ values
Absent == [kind |-> "absent", s |-> <<>>, n |-> 0]
None == [kind |-> "null", s |-> <<>>, n |-> 0]
Str(t) == [kind |-> "str", s |-> t, n |-> 0]
Num(k) == [kind |-> "int", s |-> <<>>, n |-> k]

\* Python truthiness of a value: None, "" and 0 are falsy.
Truthy(v) ==
    CASE v.kind = "str" -> v.s # <<>>
      [] v.kind = "int" -> v.n # 0
      [] OTHER -> FALSE

\* Variant of Or: `a if a is not None else b`, which lets "" and 0 through.
OrNotNone(a, b) == IF a.kind # "null" THEN a ELSE b

\* Python's `a or b`: a when a is truthy, else b.
Or(a, b) == IF Truthy(a) THEN a ELSE b

\* dict.get(key): None when the key is absent.
Get(m, key) == IF m[key].kind = "absent" THEN None ELSE m[key]

\* dict.get(key, default).
GetDefault(m, key, default) == IF m[key].kind = "absent" THEN default ELSE m[key]

DigitChar == <<"0", "1", "2", "3", "4", "5", "6", "7", "8", "9">>

RECURSIVE Digits(_)
Digits(k) ==
    IF k < 10 THEN <<DigitChar[k + 1]>>
    ELSE Digits(k \div 10) \o <<DigitChar[(k % 10) + 1]>>

\* str(v), also what an f-string placeholder renders: the text itself, the
\* decimal digits of a number, "None" for None.
Format(v) ==
    CASE v.kind = "str" -> v.s
      [] v.kind = "int" -> Digits(v.n)
      [] OTHER -> <<"N", "o", "n", "e">>

Whitespace == {" ", "\t", "\n"}

RECURSIVE LStrip(_)
LStrip(t) ==
    IF t # <<>> /\ Head(t) \in Whitespace THEN LStrip(Tail(t)) ELSE t

RECURSIVE RStrip(_)
RStrip(t) ==
    IF t # <<>> /\ t[Len(t)] \in Whitespace
    THEN RStrip(SubSeq(t, 1, Len(t) - 1)) ELSE t

\* str.strip(): leading and trailing whitespace removed.
Strip(t) == RStrip(LStrip(t))

\* f"{a} {b}"
Joined(a, b) == Format(a) \o <<" ">> \o Format(b)

\* ------------------------------------------------------------ transform
\* A nested collection as the loop header reads it: x.get(key, []).  A key
\* that is absent gives the default []; None or a number is not iterable.
Iterable(coll) == coll.shape \in {"absent", "list"}

Elements(coll) == IF coll.shape = "list" THEN coll.items ELSE <<>>

\* Every element the loop body calls .get on has to be a mapping.
AllMappings(coll) == \A j \in 1..Len(Elements(coll)) : Elements(coll)[j].ismap

\* Variant of InstructorName: the .strip() left out.
InstructorNameUntrimmed(i) ==
    Or(Get(i, "name"),
       Str(Joined(GetDefault(i, "firstName", Str(<<>>)),
                  GetDefault(i, "lastName", Str(<<>>)))))

\* for i in s.get("instructors", []): the normalised name of one instructor.
InstructorName(i) ==
    Or(Get(i, "name"),
       Str(Strip(Joined(GetDefault(i, "firstName", Str(<<>>)),
                        GetDefault(i, "lastName", Str(<<>>))))))

\* instrs: the names that are truthy, appended in order.
Instructors(s) ==
    LET elems == Elements(s.instructors)
        names == [j \in 1..Len(elems) |-> InstructorName(elems[j])]
    IN  SelectSeq(names, Truthy)

\* Variant of Meeting: a key is written only when its value is not None.
MeetingOmittingNulls(m) ==
    LET all ==
            [days |-> Or(Or(Get(m, "days"), Get(m, "pattern")), Str(<<>>)),
             start |-> Get(m, "startTime"),
             end |-> Get(m, "endTime"),
             campus |-> Or(Get(m, "campus"), Get(m, "campusName")),
             building |-> Or(Get(m, "building"), Get(m, "buildingName")),
             room |-> Or(Get(m, "room"), Str(<<>>)),
             modality |-> Or(Or(Get(m, "instructionMode"), Get(m, "mode")), Str(<<>>))]
    IN  [key \in {x \in DOMAIN all : all[x] # None} |-> all[key]]

\* One entry of meetings_out.
Meeting(m) ==
    [days |-> Or(Or(Get(m, "days"), Get(m, "pattern")), Str(<<>>)),
     start |-> Get(m, "startTime"),
     end |-> Get(m, "endTime"),
     campus |-> Or(Get(m, "campus"), Get(m, "campusName")),
     building |-> Or(Get(m, "building"), Get(m, "buildingName")),
     room |-> Or(Get(m, "room"), Str(<<>>)),
     modality |-> Or(Or(Get(m, "instructionMode"), Get(m, "mode")), Str(<<>>))]

Meetings(s) ==
    LET elems == Elements(s.meetings)
    IN  [j \in 1..Len(elems) |-> Meeting(elems[j])]

\* One entry of sections_out.
Section(s) ==
    [section |-> Or(Or(Or(Get(s, "sectionCode"), Get(s, "code")),
                       Get(s, "registrationNumber")), Str(<<>>)),
     instructors |-> Instructors(s),
     meetings |-> Meetings(s)]

Sections(c) ==
    LET elems == Elements(c.sections)
    IN  [j \in 1..Len(elems) |-> Section(elems[j])]

\* Variant of Course: the id built without .strip().
CourseIdUntrimmed(c) ==
    LET subject == Or(Or(Get(c, "subjectCode"), Get(c, "subject")), Str(<<>>))
        number == Or(Or(Or(Get(c, "courseNumber"), Get(c, "code")),
                        Get(c, "catalogNumber")), Str(<<>>))
        title == Or(Or(Get(c, "name"), Get(c, "title")), Str(<<>>))
        credits == Or(Or(Get(c, "credits"), Get(c, "minCredits")), Num(0))
    IN  [id |-> Str(Joined(subject, number)),
         subject |-> subject,
         number |-> Str(Format(number)),
         title |-> title,
         credits |-> credits,
         sections |-> Sections(c)]

\* One entry of out_courses.
Course(c) ==
    LET subject == Or(Or(Get(c, "subjectCode"), Get(c, "subject")), Str(<<>>))
        number == Or(Or(Or(Get(c, "courseNumber"), Get(c, "code")),
                        Get(c, "catalogNumber")), Str(<<>>))
        title == Or(Or(Get(c, "name"), Get(c, "title")), Str(<<>>))
        credits == Or(Or(Get(c, "credits"), Get(c, "minCredits")), Num(0))
    IN  [id |-> Str(Strip(Joined(subject, number))),
         subject |-> subject,
         number |-> Str(Format(number)),
         title |-> title,
         credits |-> credits,
         sections |-> Sections(c)]

\* The body of the section loop raises: TypeError when "instructors" or
\* "meetings" is not iterable, AttributeError when an element has no .get.
SectionRaises(s) ==
    \/ ~s.ismap
    \/ ~Iterable(s.instructors) \/ ~AllMappings(s.instructors)
    \/ ~Iterable(s.meetings) \/ ~AllMappings(s.meetings)

\* The body of the course loop raises.
CourseRaises(c) ==
    \/ ~Iterable(c.sections)
    \/ \E j \in 1..Len(Elements(c.sections)) : SectionRaises(Elements(c.sections)[j])

\* The result of a call: the document, or raised = TRUE when the call ends
\* in an exception and returns nothing.
Raised == [raised |-> TRUE, courses |-> <<>>]

\* Variant of transform_to_quacs_schema: out_courses kept from the previous
\* call instead of starting empty.
TransformAccumulating(raw) ==
    IF \E j \in 1..Len(raw) : CourseRaises(raw[j])
    THEN Raised
    ELSE [raised |-> FALSE,
          courses |-> out.courses \o [j \in 1..Len(raw) |-> Course(raw[j])]]

\* Variant of transform_to_quacs_schema: each course inserted at the front
\* of out_courses instead of appended.
TransformReversed(raw) ==
    IF \E j \in 1..Len(raw) : CourseRaises(raw[j])
    THEN Raised
    ELSE [raised |-> FALSE,
          courses |-> [j \in 1..Len(raw) |-> Course(raw[Len(raw) + 1 - j])]]

transform_to_quacs_schema(raw) ==
    IF \E j \in 1..Len(raw) : CourseRaises(raw[j])
    THEN Raised
    ELSE [raised |-> FALSE,
          courses |-> [j \in 1..Len(raw) |-> Course(raw[j])]]

\* ------------------------------------------------------------ inputs
\* What the courses endpoint may answer: the payload has no schema, so any
\* key may be missing, null, empty or of another type.  Each set varies the
\* candidate keys of one output field over a record that has no other key;
\* lists longer than one element are drawn from a few distinct elements.
BoundedSeq(S, k) == UNION {[1..j -> S] : j \in 0..k}

AbsentColl == [shape |-> "absent", items |-> <<>>]
List(items) == [shape |-> "list", items |-> items]
WrongShapes == {[shape |-> "null", items |-> <<>>], [shape |-> "int", items |-> <<>>]}

TextCS == Str(<<"C", "S">>)
TextMA == Str(<<"M", "A">>)
TextVals == {Absent, None, Str(<<>>), TextCS, TextMA}
NumberVals == {Absent, Str(<<>>), Num(0), Num(101), Str(<<"1", "0", "2">>)}
CreditVals == {Absent, None, Num(0), Num(3), Num(4)}

BaseInstructor ==
    [ismap |-> TRUE, name |-> Absent, firstName |-> Absent, lastName |-> Absent]
NameVals == {Absent, None, Str(<<>>), Str(<<" ">>), Str(<<"A", ".", " ", "S">>)}
FirstVals == {Absent, None, Str(<<>>), Str(<<"A", ".">>), Str(<<" ">>)}
LastVals == {Absent, Str(<<>>), Str(<<"S">>), Str(<<"S", " ">>)}
RawInstructors ==
    {[BaseInstructor EXCEPT !.name = a, !.firstName = b, !.lastName = c] :
        a \in NameVals, b \in FirstVals, c \in LastVals}
FewInstructors ==
    {[BaseInstructor EXCEPT !.name = Str(<<"J", ".", " ", "D">>)],
     [BaseInstructor EXCEPT !.firstName = Str(<<"A", ".">>), !.lastName = Str(<<"S">>)],
     [BaseInstructor EXCEPT !.firstName = Str(<<>>), !.lastName = Str(<<>>)]}
NotAMapping(base) == [base EXCEPT !.ismap = FALSE]
InstructorColls ==
    {AbsentColl} \cup WrongShapes
    \cup {List(<<i>>) : i \in RawInstructors}
    \cup {List(l) : l \in BoundedSeq(FewInstructors, MaxInstructors)}
    \cup {List(<<NotAMapping(BaseInstructor)>>)}

BaseMeeting ==
    [ismap |-> TRUE, days |-> Absent, pattern |-> Absent, startTime |-> Absent,
     endTime |-> Absent, campus |-> Absent, campusName |-> Absent,
     building |-> Absent, buildingName |-> Absent, room |-> Absent,
     instructionMode |-> Absent, mode |-> Absent]
RawMeetings ==
    {[BaseMeeting EXCEPT !.days = a, !.pattern = b] : a, b \in TextVals}
    \cup {[BaseMeeting EXCEPT !.campus = a, !.campusName = b] : a, b \in TextVals}
    \cup {[BaseMeeting EXCEPT !.building = a, !.buildingName = b] : a, b \in TextVals}
    \cup {[BaseMeeting EXCEPT !.instructionMode = a, !.mode = b] : a, b \in TextVals}
    \cup {[BaseMeeting EXCEPT !.startTime = a, !.endTime = b, !.room = c] :
            a, b \in {Absent, TextCS}, c \in TextVals}
FewMeetings ==
    {[BaseMeeting EXCEPT !.days = TextMA, !.startTime = TextCS, !.room = Num(101)],
     [BaseMeeting EXCEPT !.pattern = TextCS, !.campusName = TextMA]}
MeetingColls ==
    {AbsentColl} \cup WrongShapes
    \cup {List(<<m>>) : m \in RawMeetings}
    \cup {List(l) : l \in BoundedSeq(FewMeetings, MaxMeetings)}
    \cup {List(<<NotAMapping(BaseMeeting)>>)}

BaseSection ==
    [ismap |-> TRUE, sectionCode |-> Absent, code |-> Absent,
     registrationNumber |-> Absent, instructors |-> AbsentColl,
     meetings |-> AbsentColl]
RawSections ==
    {[BaseSection EXCEPT !.sectionCode = a, !.code = b, !.registrationNumber = c] :
        a, b, c \in {Absent, Str(<<>>), TextCS, Num(101)}}
    \cup {[BaseSection EXCEPT !.instructors = i] : i \in InstructorColls}
    \cup {[BaseSection EXCEPT !.meetings = m] : m \in MeetingColls}
FullSection ==
    [BaseSection EXCEPT !.sectionCode = Str(<<"A">>),
        !.instructors = List(<<[BaseInstructor EXCEPT !.name = Str(<<"J">>)],
                               [BaseInstructor EXCEPT !.lastName = Str(<<>>)],
                               [BaseInstructor EXCEPT !.lastName = Str(<<"S">>)]>>),
        !.meetings = List(<<[BaseMeeting EXCEPT !.days = TextMA],
                            [BaseMeeting EXCEPT !.days = TextCS]>>)]
FewSections == {FullSection, [BaseSection EXCEPT !.code = Str(<<"B">>)], BaseSection}
SectionColls ==
    {AbsentColl} \cup WrongShapes
    \cup {List(<<s>>) : s \in RawSections}
    \cup {List(l) : l \in BoundedSeq(FewSections, MaxSections)}
    \cup {List(<<NotAMapping(BaseSection)>>)}

BaseCourse ==
    [subjectCode |-> Absent, subject |-> Absent, courseNumber |-> Absent,
     code |-> Absent, catalogNumber |-> Absent, name |-> Absent,
     title |-> Absent, credits |-> Absent, minCredits |-> Absent,
     sections |-> AbsentColl]
RawCourses ==
    {[BaseCourse EXCEPT !.subjectCode = a, !.subject = b] : a, b \in TextVals}
    \cup {[BaseCourse EXCEPT !.courseNumber = a, !.code = b, !.catalogNumber = c] :
            a, b, c \in NumberVals}
    \cup {[BaseCourse EXCEPT !.name = a, !.title = b] : a, b \in TextVals}
    \cup {[BaseCourse EXCEPT !.credits = a, !.minCredits = b] : a, b \in CreditVals}
    \cup {[BaseCourse EXCEPT !.subjectCode = a, !.courseNumber = b] :
            a \in {Str(<<>>), TextCS, Str(<<" ", "C", "S">>), Num(7)},
            b \in NumberVals}
    \cup {[BaseCourse EXCEPT !.sections = s] : s \in SectionColls}
FewCourses ==
    {[BaseCourse EXCEPT !.subjectCode = TextCS, !.courseNumber = Num(101),
        !.sections = List(<<FullSection,
                            [BaseSection EXCEPT !.sectionCode = Str(<<"B">>)]>>)],
     [BaseCourse EXCEPT !.subject = TextMA, !.code = Str(<<"1", "0", "2">>)],
     BaseCourse}
RawInputs ==
    {<<c>> : c \in RawCourses} \cup BoundedSeq(FewCourses, MaxCourses)

\* ------------------------------------------------------------ main()
\* How requests.get / raise_for_status / r.json() can end in get_json.
Failures == {"connection_error", "timeout", "http_error", "bad_json"}
FetchResults == {"ok"} \cup Failures

NoResult == [raised |-> FALSE, courses |-> <<>>]
FileAbsent == [state |-> "absent", courses |-> <<>>]
FilePrior == [state |-> "prior", courses |-> <<>>]
FileTruncated == [state |-> "truncated", courses |-> <<>>]
FileWritten(doc) == [state |-> "written", courses |-> doc.courses]

\* Module import has run: OUT_DIR exists, the file is absent or left by an
\* earlier run, and main() is about to start.
Init ==
    /\ pc = "terms"
    /\ results = [terms |-> "none", courses |-> "none", write |-> "none"]
    /\ raw_courses = <<>>
    /\ out = NoResult
    /\ file0 \in {FileAbsent, FilePrior}
    /\ file = file0
    /\ requests = [terms |-> 0, courses |-> 0]
    /\ writes = 0
    /\ trace = <<>>
    /\ console = <<"fetching terms">>
    /\ calls = <<>>

\* Variant of FetchTerms: no try/except, a failure ends the run.
FetchTermsPropagating ==
    /\ pc = "terms"
    /\ \E r \in FetchResults :
        /\ results' = [results EXCEPT !.terms = r]
        /\ console' = IF r = "ok"
                      THEN console \o <<"terms example", "fetching courses">>
                      ELSE console
        /\ pc' = IF r = "ok" THEN "courses" ELSE "aborted"
    /\ requests' = [requests EXCEPT !.terms = @ + 1]
    /\ trace' = Append(trace, "terms")
    /\ UNCHANGED <<raw_courses, out, file, file0, writes, calls>>

\* try: terms = get_json(TERMS_ENDPOINT) ... except Exception: print warning.
FetchTerms ==
    /\ pc = "terms"
    /\ \E r \in FetchResults :
        /\ results' = [results EXCEPT !.terms = r]
        /\ console' = console \o <<IF r = "ok" THEN "terms example" ELSE "warning">>
                              \o <<"fetching courses">>
    /\ requests' = [requests EXCEPT !.terms = @ + 1]
    /\ trace' = Append(trace, "terms")
    /\ pc' = "courses"
    /\ UNCHANGED <<raw_courses, out, file, file0, writes, calls>>

\* Variant of FetchCourses: the output file opened for writing before the
\* request is made, so a failed request leaves it truncated.
FetchCoursesOpeningFirst ==
    /\ pc = "courses"
    /\ requests' = [requests EXCEPT !.courses = @ + 1]
    /\ trace' = Append(trace, "courses")
    /\ file' = FileTruncated
    /\ writes' = writes + 1
    /\ \E r \in FetchResults :
        /\ results' = [results EXCEPT !.courses = r]
        /\ IF r = "ok"
           THEN /\ raw_courses' \in RawInputs
                /\ console' = Append(console, "transforming")
                /\ pc' = "transform"
           ELSE /\ raw_courses' = raw_courses
                /\ console' = console
                /\ pc' = "aborted"
    /\ UNCHANGED <<out, file0, calls>>

\* Variant of FetchCourses: a failed request is tried once more.
FetchCoursesRetrying ==
    /\ pc = "courses"
    /\ requests' = [requests EXCEPT !.courses = @ + 1]
    /\ trace' = Append(trace, "courses")
    /\ \E r \in FetchResults :
        /\ results' = [results EXCEPT !.courses = r]
        /\ IF r = "ok"
           THEN /\ raw_courses' \in RawInputs
                /\ console' = Append(console, "transforming")
                /\ pc' = "transform"
           ELSE /\ raw_courses' = raw_courses
                /\ console' = console
                /\ pc' = IF requests.courses = 0 THEN "courses" ELSE "aborted"
    /\ UNCHANGED <<out, file, file0, writes, calls>>

\* raw_courses = fetch_courses(YEAR, TERM, MVP_SCHOOL, MVP_SUBJECT): nothing
\* catches a failure of get_json here.
FetchCourses ==
    /\ pc = "courses"
    /\ requests' = [requests EXCEPT !.courses = @ + 1]
    /\ trace' = Append(trace, "courses")
    /\ \E r \in FetchResults :
        /\ results' = [results EXCEPT !.courses = r]
        /\ IF r = "ok"
           THEN /\ raw_courses' \in RawInputs
                /\ console' = Append(console, "transforming")
                /\ pc' = "transform"
           ELSE /\ raw_courses' = raw_courses
                /\ console' = console
                /\ pc' = "aborted"
    /\ UNCHANGED <<out, file, file0, writes, calls>>

\* out = transform_to_quacs_schema(raw_courses)
Transform ==
    /\ pc = "transform"
    /\ out' = transform_to_quacs_schema(raw_courses)
    /\ calls' = Append(calls, [input |-> raw_courses, result |-> out'])
    /\ trace' = Append(trace, "transform")
    /\ pc' = IF out'.raised THEN "aborted" ELSE "write"
    /\ UNCHANGED <<results, raw_courses, file, file0, requests, writes, console>>

\* with open(OUT_FILE, "w") as f: json.dump(out, f, ...).  open may fail and
\* leave the file alone; once it is open the file is truncated, and a dump
\* that fails leaves it so.
Write ==
    /\ pc = "write"
    /\ trace' = Append(trace, "write")
    /\ \E w \in {"ok", "open_error", "dump_error"} :
        /\ results' = [results EXCEPT !.write = w]
        /\ writes' = IF w = "open_error" THEN writes ELSE writes + 1
        /\ file' = CASE w = "ok" -> FileWritten(out)
                     [] w = "dump_error" -> FileTruncated
                     [] OTHER -> file
        /\ pc' = IF w = "ok" THEN "log" ELSE "aborted"
    /\ UNCHANGED <<raw_courses, out, file0, requests, console, calls>>

\* print("Wrote:", OUT_FILE.resolve())
LogPath ==
    /\ pc = "log"
    /\ console' = Append(console, "wrote")
    /\ trace' = Append(trace, "log")
    /\ pc' = "done"
    /\ UNCHANGED <<results, raw_courses, out, file, file0, requests, writes, calls>>

Next == FetchTerms \/ FetchCourses \/ Transform \/ Write \/ LogPath

Spec == Init /\ [][Next]_vars

\* ------------------------------------------------------------ the transform alone
\* The function applied to every input of RawInputs, up to MaxCalls times,
\* with the rest of the program's state changing between the calls.
InitT ==
    /\ pc = "transform"
    /\ results = [terms |-> "none", courses |-> "ok", write |-> "none"]
    /\ raw_courses \in RawInputs
    /\ out = NoResult
    /\ file0 = FileAbsent
    /\ file = file0
    /\ requests = [terms |-> 0, courses |-> 0]
    /\ writes = 0
    /\ trace = <<>>
    /\ console = <<>>
    /\ calls = <<>>

Call ==
    /\ Len(calls) < MaxCalls
    /\ out' = transform_to_quacs_schema(raw_courses)
    /\ calls' = Append(calls, [input |-> raw_courses, result |-> out'])
    /\ UNCHANGED <<pc, results, raw_courses, file, file0, requests, writes,
                   trace, console>>

\* The terms check ends some way between two calls.
TermsCheck ==
    /\ Len(calls) = 1
    /\ results.terms = "none"
    /\ \E r \in {"ok", "timeout"} : results' = [results EXCEPT !.terms = r]
    /\ UNCHANGED <<pc, raw_courses, out, file, file0, requests, writes, trace,
                   console, calls>>

NextT == Call \/ TermsCheck

SpecT == InitT /\ [][NextT]_vars

\* ------------------------------------------------------------ properties
InSeq(x, seq) == \E j \in 1..Len(seq) : seq[j] = x

IsPrefix(a, b) == Len(a) <= Len(b) /\ \A j \in 1..Len(a) : a[j] = b[j]

PipelineOrder == <<"terms", "courses", "transform", "write", "log">>

\* The calls of the transform that returned a document.
Returned == {k \in 1..Len(calls) : ~calls[k].result.raised}

\* C1: when the required courses fetch fails, the run has aborted and the
\* output file was never opened or written: it is as it was before the run,
\* whatever the terms check did.
C1_CoursesFailureWritesNothing ==
    results.courses \in Failures =>
        /\ pc = "aborted"
        /\ file = file0
        /\ writes = 0
        /\ ~InSeq("write", trace)

C1_Witness ==
    /\ results.courses \in Failures
    /\ results.terms = "ok"
    /\ file0 = FilePrior
    /\ pc = "aborted"

\* C2: a failed terms check is caught and logged as a warning; the run is
\* then at the courses fetch, it aborts only for a later failure, and the
\* file is written when the later steps succeed.
C2_TermsFailureIsNotFatal ==
    results.terms \in Failures =>
        /\ InSeq("warning", console)
        /\ (requests.courses = 0 => pc = "courses")
        /\ (pc = "aborted" =>
                \/ results.courses \in Failures
                \/ out.raised
                \/ results.write \in {"open_error", "dump_error"})
        /\ (results.courses = "ok" /\ results.write = "ok" =>
                file = FileWritten(out))

C2_Witness ==
    /\ results.terms \in Failures
    /\ pc = "done"
    /\ file = FileWritten(out)
    /\ Len(out.courses) > 0

\* C3: the steps taken are always an initial part of terms, courses,
\* transform, write, log, and each endpoint is requested and the file
\* written at most once.
C3_FixedOrderNoRetry ==
    /\ IsPrefix(trace, PipelineOrder)
    /\ requests.terms <= 1
    /\ requests.courses <= 1
    /\ writes <= 1

C3_Witness ==
    /\ pc = "done"
    /\ trace = PipelineOrder
    /\ requests = [terms |-> 1, courses |-> 1]
    /\ writes = 1

CourseKeys == {"id", "subject", "number", "title", "credits", "sections"}
SectionKeys == {"section", "instructors", "meetings"}
MeetingKeys == {"days", "start", "end", "campus", "building", "room", "modality"}

\* C4: every course, section and meeting of a returned document has exactly
\* the keys of the output schema, whatever keys the input had.
C4_NoKeyOmitted ==
    \A k \in Returned :
        \A j \in 1..Len(calls[k].result.courses) :
            LET oc == calls[k].result.courses[j] IN
            /\ DOMAIN oc = CourseKeys
            /\ \A a \in 1..Len(oc.sections) :
                /\ DOMAIN oc.sections[a] = SectionKeys
                /\ \A b \in 1..Len(oc.sections[a].meetings) :
                    DOMAIN oc.sections[a].meetings[b] = MeetingKeys

\* A course, a section and a meeting with no key at all went through.
C4_Witness ==
    \E k \in Returned :
        /\ calls[k].input =
            <<[BaseCourse EXCEPT !.sections =
                List(<<[BaseSection EXCEPT !.meetings = List(<<BaseMeeting>>)]>>)]>>
        /\ Len(calls[k].result.courses[1].sections[1].meetings) = 1

\* C5: the transform never raises: every call returns a document.
C5_NeverRaises == \A k \in 1..Len(calls) : ~calls[k].result.raised

\* The value a field gets from its candidate keys: that of the first key,
\* in order, that passes the test, else the last resort.
RECURSIVE FirstTruthy(_, _, _)
FirstTruthy(m, keys, last) ==
    IF keys = <<>> THEN last
    ELSE IF Truthy(Get(m, Head(keys))) THEN m[Head(keys)]
    ELSE FirstTruthy(m, Tail(keys), last)

RECURSIVE FirstPresent(_, _, _)
FirstPresent(m, keys, last) ==
    IF keys = <<>> THEN last
    ELSE IF m[Head(keys)].kind # "absent" THEN m[Head(keys)]
    ELSE FirstPresent(m, Tail(keys), last)

NullDefault(m, key) == None
LastCandidate(m, key) == Get(m, key)

\* Every mapped field of every returned document is what Pick gives for its
\* candidate keys; campus and building end in Rest of their last candidate.
FieldsMapped(Pick(_, _, _), Rest(_, _)) ==
    \A k \in Returned :
        \A j \in 1..Len(calls[k].result.courses) :
            LET c == calls[k].input[j]
                oc == calls[k].result.courses[j]
            IN
            /\ oc.subject = Pick(c, <<"subjectCode", "subject">>, Str(<<>>))
            /\ oc.number = Str(Format(
                    Pick(c, <<"courseNumber", "code", "catalogNumber">>, Str(<<>>))))
            /\ oc.title = Pick(c, <<"name", "title">>, Str(<<>>))
            /\ oc.credits = Pick(c, <<"credits", "minCredits">>, Num(0))
            /\ (c = BaseCourse =>
                    /\ oc.subject = Str(<<>>) /\ oc.number = Str(<<>>)
                    /\ oc.title = Str(<<>>) /\ oc.credits = Num(0)
                    /\ oc.sections = <<>>)
            /\ \A a \in 1..Len(oc.sections) :
                LET s == Elements(c.sections)[a]
                    os == oc.sections[a]
                IN
                /\ os.section =
                    Pick(s, <<"sectionCode", "code", "registrationNumber">>, Str(<<>>))
                /\ \A b \in 1..Len(os.meetings) :
                    LET m == Elements(s.meetings)[b]
                        om == os.meetings[b]
                    IN
                    /\ om.days = Pick(m, <<"days", "pattern">>, Str(<<>>))
                    /\ om.campus = Pick(m, <<"campus", "campusName">>,
                                        Rest(m, "campusName"))
                    /\ om.building = Pick(m, <<"building", "buildingName">>,
                                          Rest(m, "buildingName"))
                    /\ om.modality = Pick(m, <<"instructionMode", "mode">>, Str(<<>>))

\* C6 as stated: the first candidate key that is present decides, and the
\* default ("", 0 or null) is used only when none is present.
C6_FirstPresentKey == FieldsMapped(FirstPresent, NullDefault)

\* C6 as the code has it: the first candidate key whose value is truthy
\* (present and not null, "" or 0) decides; when there is none the default
\* "" or 0 is used, and campus and building, which have no default, get the
\* value of their last candidate key, null when that key is absent.
C6_FirstTruthyKey == FieldsMapped(FirstTruthy, LastCandidate)

\* A first candidate that is present but empty was passed over.
C6_Witness ==
    \E k \in Returned :
        /\ calls[k].input[1].subjectCode = Str(<<>>)
        /\ calls[k].input[1].subject = TextCS
        /\ calls[k].result.courses[1].subject = TextCS

\* f"{firstName} {lastName}".strip(), an absent key counting as "".
FullName(i) ==
    Str(Strip(Format(GetDefault(i, "firstName", Str(<<>>))) \o <<" ">>
              \o Format(GetDefault(i, "lastName", Str(<<>>)))))

NameIfPresent(i) == IF i.name.kind # "absent" THEN i.name ELSE FullName(i)
NameIfTruthy(i) == IF Truthy(Get(i, "name")) THEN i.name ELSE FullName(i)

Blank(v) == Strip(Format(v)) = <<>>
NotBlank(v) == ~Blank(v)
NotEmpty(v) == v # Str(<<>>)

\* Every instructors list of every returned document is Keep applied to the
\* names Name gives for the input instructors, in order.
InstructorsDerived(Name(_), Keep(_)) ==
    \A k \in Returned :
        \A j \in 1..Len(calls[k].result.courses) :
            \A a \in 1..Len(calls[k].result.courses[j].sections) :
                LET ins == Elements(Elements(calls[k].input[j].sections)[a].instructors)
                    got == calls[k].result.courses[j].sections[a].instructors
                IN
                /\ got = SelectSeq([b \in 1..Len(ins) |-> Name(ins[b])], Keep)
                /\ \A b \in 1..Len(got) : Keep(got[b])

\* C7 as stated: a name key that exists is emitted as it is, else the
\* trimmed full name; a name that is empty after trimming is omitted, so
\* no list holds an empty or whitespace-only string.
C7_NameIfPresent == InstructorsDerived(NameIfPresent, NotBlank)

\* C7 as the code has it: a name value that is truthy is emitted as it is,
\* untrimmed; else the full name, trimmed; an empty result is omitted, so no
\* list holds an empty string.
C7_NameIfTruthy == InstructorsDerived(NameIfTruthy, NotEmpty)

\* Three instructors in: one named, one with an empty name, one with only a
\* last name; two out, in order.
C7_Witness ==
    \E k \in Returned :
        /\ Len(calls[k].result.courses) = 1
        /\ Len(calls[k].result.courses[1].sections) = 1
        /\ Len(Elements(Elements(calls[k].input[1].sections)[1].instructors)) = 3
        /\ calls[k].result.courses[1].sections[1].instructors
            = <<Str(<<"J">>), Str(<<"S">>)>>

\* C8: id is the output subject, a space and the output number, trimmed;
\* number is a string; "CS" with 101 gives "CS 101" and "101", "" with ""
\* gives "".
C8_IdAndNumber ==
    \A k \in Returned :
        \A j \in 1..Len(calls[k].result.courses) :
            LET c == calls[k].input[j]
                oc == calls[k].result.courses[j]
            IN
            /\ oc.number.kind = "str"
            /\ oc.id = Str(Strip(Format(oc.subject) \o <<" ">> \o oc.number.s))
            /\ (c.subjectCode = TextCS /\ c.courseNumber = Num(101) =>
                    /\ oc.id = Str(<<"C", "S", " ", "1", "0", "1">>)
                    /\ oc.number = Str(<<"1", "0", "1">>))
            /\ (c.subjectCode = Str(<<>>) /\ c.courseNumber = Str(<<>>)
                    /\ c.subject = Absent /\ c.code = Absent
                    /\ c.catalogNumber = Absent =>
                    oc.id = Str(<<>>))

C8_Witness ==
    \E k \in Returned :
        /\ calls[k].input[1].subjectCode = TextCS
        /\ calls[k].input[1].courseNumber = Num(101)
        /\ calls[k].result.courses[1].id = Str(<<"C", "S", " ", "1", "0", "1">>)

RECURSIVE IsSubsequence(_, _)
IsSubsequence(a, b) ==
    IF a = <<>> THEN TRUE
    ELSE IF b = <<>> THEN FALSE
    ELSE IF Head(a) = Head(b) THEN IsSubsequence(Tail(a), Tail(b))
    ELSE IsSubsequence(a, Tail(b))

RECURSIVE CountEmpty(_)
CountEmpty(names) ==
    IF names = <<>> THEN 0
    ELSE (IF Truthy(Head(names)) THEN 0 ELSE 1) + CountEmpty(Tail(names))

\* C10: a returned document has the input's courses, sections and meetings
\* one for one and in order; an instructors list is a subsequence of the
\* derived names, shorter by exactly the empty ones.
C10_StructureAndOrder ==
    \A k \in Returned :
        LET raw == calls[k].input
            doc == calls[k].result
        IN
        /\ Len(doc.courses) = Len(raw)
        /\ \A j \in 1..Len(raw) :
            LET secs == Elements(raw[j].sections)
                oc == doc.courses[j]
            IN
            /\ oc.id = Course(raw[j]).id
            /\ Len(oc.sections) = Len(secs)
            /\ \A a \in 1..Len(secs) :
                LET mts == Elements(secs[a].meetings)
                    ins == Elements(secs[a].instructors)
                    names == [b \in 1..Len(ins) |-> InstructorName(ins[b])]
                    os == oc.sections[a]
                IN
                /\ os.section = Section(secs[a]).section
                /\ Len(os.meetings) = Len(mts)
                /\ \A b \in 1..Len(mts) : os.meetings[b] = Meeting(mts[b])
                /\ IsSubsequence(os.instructors, names)
                /\ Len(os.instructors) = Len(names) - CountEmpty(names)

\* Two different courses in, the first with two sections, of which the
\* first has two different meetings and loses one of three instructors.
C10_Witness ==
    \E k \in Returned :
        LET raw == calls[k].input
            doc == calls[k].result
        IN
        /\ Len(raw) = 2 /\ raw[1] # raw[2]
        /\ doc.courses[1] # doc.courses[2]
        /\ Len(doc.courses[1].sections) = 2
        /\ Len(doc.courses[1].sections[1].meetings) = 2
        /\ doc.courses[1].sections[1].meetings[1] # doc.courses[1].sections[1].meetings[2]
        /\ Len(doc.courses[1].sections[1].instructors) = 2

====
